---- MODULE Spec2Model ----
(***************************************************************************)
(* Model of the IG release processor: the window of src/ui.py             *)
(* (IGReleaseApp) and the repository operations of src/logic.py.          *)
(*                                                                         *)
(* The handlers of IGReleaseApp run on the UI thread, one at a time; each  *)
(* call of fetch_all_repos starts a background thread that runs            *)
(* fetch_repos concurrently with them and with the other such threads.     *)
(***************************************************************************)
EXTENDS Integers, Sequences, FiniteSets, TLC

\* ------------------------------------------------------------------ bounds

\* Number of fetch_repos threads that can be alive at the same time.
MaxThreads == 2

\* Under Spec a caller request starts a fetch_repos thread only while fewer
\* than MaxRunning of them are alive; SpecSync allows all MaxThreads.
MaxRunning == 1

Threads == 1..MaxThreads

\* Longest repository URL, in characters, handed to gh_pages_has_sitepreview.
MaxUrlLen == 3

\* Most branches, and most tags, a remote lists.
MaxRefs == 2

\* ------------------------------------------------------- program constants

\* The keys of repo_fields, in insertion order (ui.py:49-54).
RepoFields == <<"Work Folder", "History Template", "IG Registry", "Current Web Content">>

\* fetch_repos skips "Work Folder" (ui.py:244-245): the names it syncs, in order.
SyncNames == SelectSeq(RepoFields, LAMBDA n : n # "Work Folder")

\* total_repos = len(self.repo_fields) - 1 (ui.py:240)
TotalRepos == Len(RepoFields) - 1

\* dest_folder = os.path.join(work_folder, name.replace(" ", "_")) (ui.py:249)
DestFolder(name) ==
    CASE name = "History Template"    -> "History_Template"
      [] name = "IG Registry"         -> "IG_Registry"
      [] name = "Current Web Content" -> "Current_Web_Content"
      [] name = "Work Folder"         -> "Work_Folder"

\* os.path.join(work_folder, "New_IG_Source") (ui.py:192, ui.py:220, logic.py:112)
IgSourceFolder == "New_IG_Source"

Paths == {DestFolder(SyncNames[i]) : i \in 1..Len(SyncNames)} \cup {IgSourceFolder}

\* int((completed / total_repos) * 100) (ui.py:261)
SyncProgress(completed, total) == (completed * 100) \div total

\* --------------------------------------------------- fetch_or_update_repo

\* What the process started by fetch_or_update_repo can do.  A clone either
\* completes or raises; a fetch subprocess exits with status 0, exits with a
\* non-zero status, outlives the timeout, or cannot be started (git.Repo or
\* Popen raises).
CloneOutcomes == {"clone_ok", "clone_error"}
FetchOutcomes == {"exit_zero", "exit_nonzero", "timeout", "fetch_error"}

\* The underlying clone or fetch actually succeeded.
Succeeded(proc) == proc \in {"clone_ok", "exit_zero"}

\* SyncKind without the test of logic.py:27.
SyncKindAlwaysClone(fsState) == "clone"

\* logic.py:27: a fetch when dest_folder/.git exists, a clone otherwise.
SyncKind(fsState) == IF fsState = "repo" THEN "fetch" ELSE "clone"

ProcOutcomes(kind) == IF kind = "fetch" THEN FetchOutcomes ELSE CloneOutcomes

\* The value fetch_or_update_repo returns (logic.py:26-54): False on a
\* timeout (line 39) and on any exception (line 54), True otherwise (line 51);
\* the exit status of the fetch subprocess is never read.
FetchOrUpdateReturn(proc) ==
    CASE proc = "timeout"      -> FALSE
      [] proc = "fetch_error"  -> FALSE
      [] proc = "clone_error"  -> FALSE
      [] proc = "exit_zero"    -> TRUE
      [] proc = "exit_nonzero" -> TRUE
      [] proc = "clone_ok"     -> TRUE

\* What has become of the subprocess of logic.py:33 when the function
\* returns: fetch_process.kill() on a timeout (line 37), an exit of its own
\* otherwise; a clone and a failed start leave no subprocess of that line.
FetchProcess(proc) ==
    CASE proc = "timeout"                      -> "killed"
      [] proc \in {"exit_zero", "exit_nonzero"} -> "exited"
      [] OTHER                                 -> "none"

\* ------------------------------------------------------------------- state

VARIABLES
    fs,        \* per local path: "absent", "dir" (exists, no .git) or "repo"
    threads,   \* the fetch_repos threads (ui.py:239-266)
    progress,  \* progress_bar value; -1 until the first setValue
    uiPc,      \* where the UI thread is: "idle" or a place inside a handler
    stage,     \* the stage of the latest BuildRun (spec 4.5); "Idle" before the first
    runLog,    \* what the latest BuildRun did so far, in order
    runThread, \* the thread the latest BuildRun started, 0 when none
    deployBuiltVisible,     \* deploy_built_button.isVisible()
    deployPrebuiltVisible,  \* deploy_prebuilt_button.isVisible()
    deployed,  \* the deploy operations invoked since the latest build request
    jsonEditor,  \* the text of json_editor, a sequence of characters
    branches,  \* the items of branch_dropdown
    igRef,     \* the ref checked out in New_IG_Source, "none" without a repository
    web,       \* the repository the "Current Web Content" field names, and its remote
    call       \* the latest call of a function of logic.py made on its own

syncVars == <<fs, threads, progress>>
uiVars == <<uiPc, stage, runLog, runThread, deployBuiltVisible,
            deployPrebuiltVisible, deployed, jsonEditor, branches, igRef, web, call>>
vars == <<fs, threads, progress, uiPc, stage, runLog, runThread,
          deployBuiltVisible, deployPrebuiltVisible, deployed, jsonEditor, branches,
          igRef, web, call>>

\* The web-content repository before any deploy: its working tree, whether
\* the index holds staged changes, the commit at the tip of the active
\* branch, the active branch, the local branches, and the branches this
\* program pushed to origin.
OldWeb == [tree |-> "old", staged |-> FALSE, head |-> "old", active |-> "main",
           heads |-> {"main"}, remote |-> {}]

\* No function of logic.py has been called on its own yet.
NoCall == [fn |-> "none"]

\* A thread slot nobody runs in.
NoThread == [pc |-> "unused", idx |-> 1, completed |-> 0, outcomes |-> {},
             ret |-> FALSE, ok |-> FALSE, out |-> "none", proc |-> "none"]

\* The state of fetch_repos right after threading.Thread(...).start().
NewThread == [NoThread EXCEPT !.pc = "loop"]

Init ==
    /\ fs = [p \in Paths |-> "absent"]
    /\ threads = [t \in Threads |-> NoThread]
    /\ progress = -1
    /\ uiPc = "idle"
    /\ stage = "Idle"
    /\ runLog = <<>>
    /\ runThread = 0
    /\ deployBuiltVisible = FALSE
    /\ deployPrebuiltVisible = FALSE
    /\ deployed = {}
    /\ jsonEditor = <<>>
    /\ branches = <<>>
    /\ igRef = "none"
    /\ web = OldWeb
    /\ call = NoCall

\* -------------------------------------------------- fetch_repos (a thread)

SyncName(t) == SyncNames[threads[t].idx]
SyncPath(t) == DestFolder(SyncName(t))

Free(t) == threads[t].pc \in {"unused", "done", "dead"}

Running == Cardinality({t \in Threads : ~Free(t)})

\* threading.Thread(target=fetch_repos, daemon=True).start() (ui.py:266) in
\* the lowest free slot.
StartThread(t) ==
    /\ Free(t)
    /\ \A u \in Threads : u < t => ~Free(u)
    /\ threads' = [threads EXCEPT ![t] = NewThread]

\* logic.py:23 and 27: os.path.exists(dest_folder); when the folder exists the
\* thread goes on to test for .git and starts the fetch or the clone.
SyncExists(t) ==
    /\ threads[t].pc = "loop"
    /\ threads' = [threads EXCEPT ![t].pc =
                     IF fs[SyncPath(t)] = "absent" THEN "makedirs"
                     ELSE SyncKind(fs[SyncPath(t)])]
    /\ UNCHANGED <<fs, progress>>
    /\ UNCHANGED uiVars

\* logic.py:24: os.makedirs(dest_folder), outside the try block: it raises
\* FileExistsError when the folder appeared since the test of line 23, or an
\* OSError when it cannot be created; the exception ends the thread.
SyncMakedirs(t) ==
    /\ threads[t].pc = "makedirs"
    /\ \/ /\ fs[SyncPath(t)] = "absent"
          /\ fs' = [fs EXCEPT ![SyncPath(t)] = "dir"]
          /\ threads' = [threads EXCEPT ![t].pc = "clone"]
       \/ /\ threads' = [threads EXCEPT ![t].pc = "dead"]
          /\ fs' = fs
    /\ UNCHANGED progress
    /\ UNCHANGED uiVars

\* logic.py:28-50: the fetch or the clone ends; the function returns.
SyncReturn(t) ==
    /\ threads[t].pc \in {"fetch", "clone"}
    /\ \E proc \in ProcOutcomes(threads[t].pc) :
          /\ threads' = [threads EXCEPT ![t].pc = "returned",
                                        ![t].ret = FetchOrUpdateReturn(proc),
                                        ![t].ok = Succeeded(proc),
                                        ![t].out = proc,
                                        ![t].proc = FetchProcess(proc)]
          /\ fs' = IF proc = "clone_ok"
                   THEN [fs EXCEPT ![SyncPath(t)] = "repo"] ELSE fs
    /\ UNCHANGED progress
    /\ UNCHANGED uiVars

\* ui.py:255-263: log the outcome, count it, set the progress bar, next name.
SyncLog(t) ==
    /\ threads[t].pc = "returned"
    /\ LET th == threads[t]
           c  == th.completed + 1
       IN /\ threads' = [threads EXCEPT ![t] =
                [pc |-> IF th.idx = Len(SyncNames) THEN "done" ELSE "loop",
                 idx |-> IF th.idx = Len(SyncNames) THEN th.idx ELSE th.idx + 1,
                 completed |-> c,
                 outcomes |-> th.outcomes \cup {SyncName(t)},
                 ret |-> FALSE, ok |-> FALSE, out |-> "none", proc |-> "none"]]
          /\ progress' = SyncProgress(c, TotalRepos)
    /\ UNCHANGED fs
    /\ UNCHANGED uiVars

SyncStep == \E t \in Threads :
    SyncExists(t) \/ SyncMakedirs(t) \/ SyncReturn(t) \/ SyncLog(t)

\* The "Fetch All Repos" button (ui.py:60-61, 236-266).
FetchAllClick(limit) ==
    /\ uiPc = "idle"
    /\ Running < limit
    /\ \E t \in Threads : StartThread(t)
    /\ UNCHANGED <<fs, progress>>
    /\ UNCHANGED uiVars

\* ------------------------------------------------- the publication request

\* Texts are sequences of characters.  "s" stands for a string literal and
\* "1" for a number; " " is whitespace.
EmptyObject == <<"{", "}">>
ValidManifest == <<"{", "s", ":", "{", "s", ":", "1", "}", "}", " ">>
TruncatedManifest == <<"{", "s", ":", "s">>

IsSpace(c) == c = " "

\* str.strip() (ui.py:272)
RECURSIVE StripLeft(_)
StripLeft(text) ==
    IF text # <<>> /\ IsSpace(Head(text)) THEN StripLeft(Tail(text)) ELSE text

RECURSIVE StripRight(_)
StripRight(text) ==
    IF text # <<>> /\ IsSpace(text[Len(text)])
    THEN StripRight(SubSeq(text, 1, Len(text) - 1)) ELSE text

Strip(text) == StripRight(StripLeft(text))

\* json.loads (ui.py:273, cli.py:38) as a recursive-descent parser: the
\* position after the value that starts at i, or 0 when there is none.
At(text, i) == IF i >= 1 /\ i <= Len(text) THEN text[i] ELSE "eof"

RECURSIVE SkipSpace(_, _)
SkipSpace(text, i) ==
    IF IsSpace(At(text, i)) THEN SkipSpace(text, i + 1) ELSE i

RECURSIVE ParseValue(_, _)
RECURSIVE ParseMembers(_, _)

ParseValue(text, i0) ==
    LET i == SkipSpace(text, i0)
    IN CASE At(text, i) \in {"s", "1"} -> i + 1
         [] At(text, i) = "{" ->
              LET j == SkipSpace(text, i + 1)
              IN IF At(text, j) = "}" THEN j + 1 ELSE ParseMembers(text, j)
         [] OTHER -> 0

\* "s" : value, then "," and more members or "}".
ParseMembers(text, i) ==
    IF At(text, i) # "s" THEN 0
    ELSE LET c == SkipSpace(text, i + 1)
         IN IF At(text, c) # ":" THEN 0
            ELSE LET v == ParseValue(text, c + 1)
                     e == SkipSpace(text, v)
                 IN CASE v = 0 -> 0
                      [] At(text, e) = "}" -> e + 1
                      [] At(text, e) = "," -> ParseMembers(text, SkipSpace(text, e + 1))
                      [] OTHER -> 0

JsonLoads(text) ==
    LET v == ParseValue(text, 1)
    IN v # 0 /\ SkipSpace(text, v) = Len(text) + 1

\* IGReleaseApp.validate_json (ui.py:269-282)
ValidateJson(editorText) == JsonLoads(Strip(editorText))

\* ------------------------------------------------------------- the remote

\* The refs of the IG source remote, in the order ls-remote lists them.
RemoteHeads == <<"main", "gh-pages">>
RemoteTags == <<"v1">>

\* The branch a clone without branch= checks out (logic.py:47): the remote HEAD.
DefaultBranch == "main"

\* The branch download_gh_pages checks out (logic.py:118, 121).
PreviewBranch == "gh-pages"

\* dest_folder of download_gh_pages: os.path.join(work_folder, "New_IG_Source")
\* (logic.py:112).
GhPagesFolder == "New_IG_Source"

\* publication-request.json in the tree of each ref: a text, or "absent".
ManifestFile(ref) ==
    CASE ref = "main" -> ValidManifest
      [] ref = "v1"   -> TruncatedManifest
      [] OTHER        -> "absent"

\* A ref name is a sequence of tokens, one token for a run of characters;
\* "refs/heads/" and "refs/tags/" are tokens of their own, since a name may
\* contain them.
HeadsPrefix == "refs/heads/"
TagsPrefix == "refs/tags/"

\* The suffix git puts on the line of a peeled tag.
PeelSuffix == "^{}"

\* The output of git ls-remote --heads (logic.py:59), a line as its fields
\* between tabs: the object name, then refs/heads/<name>.
LsRemoteHeads(heads) ==
    [i \in 1..Len(heads) |-> <<"sha", <<HeadsPrefix>> \o heads[i]>>]

\* The output of git ls-remote --tags (logic.py:62): a line for every tag
\* and, for an annotated tag, a second line for the object it points to.
RECURSIVE LsRemoteTags(_)
LsRemoteTags(tags) ==
    IF tags = <<>> THEN <<>>
    ELSE LET tg == Head(tags)
             line == <<"sha", <<TagsPrefix>> \o tg.name>>
             peeled == <<"sha", <<TagsPrefix>> \o tg.name \o <<PeelSuffix>>>>
         IN (IF tg.annotated THEN <<line, peeled>> ELSE <<line>>)
            \o LsRemoteTags(Tail(tags))

\* str.replace(prefix, ""): every occurrence of prefix goes.
Replace(ref, prefix) == SelectSeq(ref, LAMBDA tok : tok # prefix)

\* The string a sequence of tokens spells.
RECURSIVE Join(_)
Join(tokens) == IF tokens = <<>> THEN "" ELSE Head(tokens) \o Join(Tail(tokens))

\* line.split("\t")[1].replace(prefix, "") (logic.py:60, 63)
RefName(line, prefix) == Join(Replace(line[2], prefix))

\* branch_list + tag_list (logic.py:60-65)
ParseRefs(headLines, tagLines) ==
    [i \in 1..Len(headLines) |-> RefName(headLines[i], HeadsPrefix)]
    \o [i \in 1..Len(tagLines) |-> RefName(tagLines[i], TagsPrefix)]

\* The listings of the IG source remote: its tags are lightweight.
RemoteHeadNames == [i \in 1..Len(RemoteHeads) |-> <<RemoteHeads[i]>>]
RemoteTagEntries ==
    [i \in 1..Len(RemoteTags) |-> [name |-> <<RemoteTags[i]>>, annotated |-> FALSE]]

\* logic.get_git_branches (logic.py:56-68) on the IG source remote: branches
\* then tags; [] when ls_remote raises.
GetGitBranches(listed) ==
    IF listed
    THEN ParseRefs(LsRemoteHeads(RemoteHeadNames), LsRemoteTags(RemoteTagEntries))
    ELSE <<>>

\* LoadPublicationRequest with an empty text in place of "{}".
LoadPublicationRequestEmptyText(file, readable) ==
    IF file # "absent" /\ readable THEN file ELSE <<>>

\* logic.load_publication_request (logic.py:81-92)
LoadPublicationRequest(file, readable) ==
    IF file # "absent" /\ readable THEN file ELSE EmptyObject

\* validate_json of cli.py (lines 34-41): json.loads of what
\* load_publication_request returns.
CliValidateJson(file, readable) == JsonLoads(LoadPublicationRequest(file, readable))

Range(seq) == {seq[i] : i \in 1..Len(seq)}

\* ------------------------------------------------- handlers of the UI thread

\* IGReleaseApp.on_branch_selected (ui.py:217-232) for the item `branch`:
\* the text of json_editor afterwards.  switch_to_branch (logic.py:70-79)
\* succeeds only in a repository, when fetch and checkout raise nothing.
EditorAfterSwitch(branch, switched, readable) ==
    IF switched /\ fs[IgSourceFolder] = "repo"
    THEN LoadPublicationRequest(ManifestFile(branch), readable)
    ELSE jsonEditor

\* The ref checked out in New_IG_Source after switch_to_branch (logic.py:75).
RefAfterSwitch(branch, switched) ==
    IF switched /\ fs[IgSourceFolder] = "repo" THEN branch ELSE igRef

\* The user picks an item of branch_dropdown (currentIndexChanged, ui.py:43).
BranchSelected ==
    /\ uiPc = "idle"
    /\ \E b \in Range(branches) :
          \/ /\ jsonEditor' = EditorAfterSwitch(b, FALSE, FALSE)
             /\ igRef' = RefAfterSwitch(b, FALSE)
          \/ \E readable \in BOOLEAN :
                /\ jsonEditor' = EditorAfterSwitch(b, TRUE, readable)
                /\ igRef' = RefAfterSwitch(b, TRUE)
    /\ UNCHANGED <<syncVars, uiPc, stage, runLog, runThread, deployBuiltVisible,
                   deployPrebuiltVisible, deployed, branches, web, call>>

\* IGReleaseApp.fetch_ig_repo up to the clone or fetch of
\* fetch_or_update_repo (ui.py:188-196, logic.py:23-27).  os.makedirs is
\* outside the try block: when it raises, the handler ends there.
FetchIgRepoBegin ==
    /\ uiPc = "idle"
    /\ \/ /\ fs[IgSourceFolder] # "absent"
          /\ uiPc' = "ig_" \o SyncKind(fs[IgSourceFolder])
          /\ fs' = fs
       \/ /\ fs[IgSourceFolder] = "absent"
          /\ \/ /\ fs' = [fs EXCEPT ![IgSourceFolder] = "dir"]
                /\ uiPc' = "ig_clone"
             \/ /\ fs' = fs
                /\ uiPc' = "idle"
    /\ UNCHANGED <<threads, progress, stage, runLog, runThread, deployBuiltVisible,
                   deployPrebuiltVisible, deployed, jsonEditor, branches>>
    /\ UNCHANGED <<igRef, web, call>>

\* fetch_or_update_repo returns to fetch_ig_repo (ui.py:196-198, 212-214):
\* on False the handler only reports the failure.
FetchIgRepoReturn ==
    /\ uiPc \in {"ig_fetch", "ig_clone"}
    /\ \E proc \in ProcOutcomes(IF uiPc = "ig_fetch" THEN "fetch" ELSE "clone") :
          /\ fs' = IF proc = "clone_ok"
                   THEN [fs EXCEPT ![IgSourceFolder] = "repo"] ELSE fs
          /\ igRef' = IF proc = "clone_ok" THEN DefaultBranch ELSE igRef
          /\ uiPc' = IF FetchOrUpdateReturn(proc) THEN "ig_fetched" ELSE "idle"
    /\ UNCHANGED <<threads, progress, stage, runLog, runThread, deployBuiltVisible,
                   deployPrebuiltVisible, deployed, jsonEditor, branches, web, call>>

\* The success branch of fetch_ig_repo (ui.py:198-210): the dropdown is
\* refilled, which selects its first item and so runs on_branch_selected,
\* and a found preview shows the "Deploy Pre-Built IG" button.
FetchIgRepoFetched ==
    /\ uiPc = "ig_fetched"
    /\ \E listed \in BOOLEAN : branches' = GetGitBranches(listed)
    /\ \/ /\ jsonEditor' = jsonEditor
          /\ igRef' = igRef
       \/ /\ branches' # <<>>
          /\ fs[IgSourceFolder] = "repo"
          /\ igRef' = branches'[1]
          /\ \E readable \in BOOLEAN :
                jsonEditor' = LoadPublicationRequest(ManifestFile(branches'[1]), readable)
    /\ \E found \in BOOLEAN :
          deployPrebuiltVisible' = (deployPrebuiltVisible \/ found)
    /\ uiPc' = "idle"
    /\ UNCHANGED <<syncVars, stage, runLog, runThread, deployBuiltVisible, deployed,
                   web, call>>

\* -------------------------------------------------------------- deployment

\* One git or file operation applied to the web-content repository.
\* repo.create_head adds a branch and leaves the active branch alone.
WebApply(w, op) ==
    CASE op = "copy"        -> [w EXCEPT !.tree = "preview"]
      [] op = "stage"       -> [w EXCEPT !.staged = TRUE]
      [] op = "commit_built"    -> [w EXCEPT !.staged = FALSE, !.head = "built"]
      [] op = "commit_prebuilt" -> [w EXCEPT !.staged = FALSE, !.head = "prebuilt"]
      [] op = "create_new"  -> [w EXCEPT !.heads = @ \cup {"new"}]
      [] op = "push_main"   -> [w EXCEPT !.remote = @ \cup {"main"}]
      [] op = "push_new"    -> [w EXCEPT !.remote = @ \cup {"new"}]

RECURSIVE WebAfter(_, _)
WebAfter(w, ops) ==
    IF ops = <<>> THEN w ELSE WebAfter(WebApply(w, Head(ops)), Tail(ops))

\* What the environment lets logic.deploy_built do: git.Repo raises because
\* the argument is no repository, the push is rejected, or all goes well.
DeployBuiltOutcomes == {"no_repo", "push_rejected", "pushed"}

\* logic.deploy_built (logic.py:126-132): the operations it performs and how
\* it ends; it has no return statement and no try block.
DeployBuiltRun(outcome) ==
    CASE outcome = "no_repo" ->
            [ops |-> <<>>, ret |-> "raised"]
      [] outcome = "push_rejected" ->
            [ops |-> <<"stage", "commit_built">>, ret |-> "raised"]
      [] outcome = "pushed" ->
            [ops |-> <<"stage", "commit_built", "push_main">>, ret |-> "None"]

\* DeployPrebuiltRun without the test of logic.py:138: the copy of line 143 is
\* attempted whether or not the folder exists.
DeployPrebuiltRunNoTest(sitepreview) == [ops |-> <<>>, ret |-> "raised"]

\* logic.deploy_prebuilt (logic.py:134-153).  Without the sitepreview folder
\* it returns False (lines 138-140).  With it, line 143 evaluates the name
\* shutil, which logic.py never imports (lines 1-7): NameError, and lines
\* 146-153 (Repo, add, commit, create_head, push, return True) never run.
DeployPrebuiltRun(sitepreview) ==
    IF ~sitepreview
    THEN [ops |-> <<>>, ret |-> "False"]
    ELSE [ops |-> <<>>, ret |-> "raised"]

\* The tree of gh-pages on the remote holds the sitepreview folder.
TreeHasSitepreview(ref) == ref = "gh-pages"

\* os.path.exists(<work folder>/New_IG_Source/sitepreview) (logic.py:136-138)
SitepreviewExists ==
    fs[IgSourceFolder] = "repo" /\ TreeHasSitepreview(igRef)

\* ------------------------------------------------ gh_pages_has_sitepreview

\* str.split("/"): the segments of a text, one more than it has slashes.
RECURSIVE SplitSlash(_)
SplitSlash(text) ==
    IF text = <<>> THEN << <<>> >>
    ELSE LET rest == SplitSlash(Tail(text))
         IN IF Head(text) = "/"
            THEN << <<>> >> \o rest
            ELSE << <<Head(text)>> \o Head(rest) >> \o Tail(rest)

\* The statuses requests.head can end with after following redirects.
ProbeStatuses == {200, 204, 304, 404, 500}

\* What requests.head does: it raises, or it returns a response.
ProbeResponses ==
    {[raised |-> TRUE, status |-> 0]}
    \cup {[raised |-> FALSE, status |-> st] : st \in ProbeStatuses}

\* GhPagesHasSitepreview with lines 99-100 moved out of the try block: the
\* IndexError of split("/")[-2] leaves the function.
GhPagesHasSitepreviewNoTry(repo_url, response) ==
    IF Len(SplitSlash(repo_url)) < 2
    THEN [raised |-> TRUE, value |-> FALSE]
    ELSE [raised |-> FALSE, value |-> ~response.raised /\ response.status = 200]

\* logic.gh_pages_has_sitepreview (logic.py:96-107).  split("/")[-2] raises
\* IndexError on a URL without a slash; that and whatever requests.head
\* raises is caught at line 105 and gives False.
GhPagesHasSitepreview(repo_url, response) ==
    IF Len(SplitSlash(repo_url)) < 2
    THEN [raised |-> FALSE, value |-> FALSE]
    ELSE IF response.raised
         THEN [raised |-> FALSE, value |-> FALSE]
         ELSE [raised |-> FALSE, value |-> response.status = 200]

\* IGReleaseApp.deploy_built (ui.py:175-178)
DeployBuilt ==
    /\ uiPc = "idle"
    /\ deployBuiltVisible
    /\ deployed' = deployed \cup {"built"}
    /\ \E outcome \in DeployBuiltOutcomes :
          web' = WebAfter(web, DeployBuiltRun(outcome).ops)
    /\ UNCHANGED <<syncVars, uiPc, stage, runLog, runThread, deployBuiltVisible,
                   deployPrebuiltVisible, jsonEditor, branches, igRef, call>>

\* IGReleaseApp.deploy_prebuilt (ui.py:180-186); the value logic.deploy_prebuilt
\* returns is dropped.
DeployPrebuilt ==
    /\ uiPc = "idle"
    /\ deployPrebuiltVisible
    /\ deployed' = deployed \cup {"prebuilt"}
    /\ web' = WebAfter(web, DeployPrebuiltRun(SitepreviewExists).ops)
    /\ UNCHANGED <<syncVars, uiPc, stage, runLog, runThread, deployBuiltVisible,
                   deployPrebuiltVisible, jsonEditor, branches, igRef, call>>

\* ------------------------------------------------------------ the BuildRun

\* What one publisher command does (ui.py:167-172): it exits with 0, exits
\* with another status, or prints a line that line.decode() cannot decode.
CmdOutcomes == {"zero", "nonzero", "undecodable"}

\* IGReleaseApp.build_ig, lines 116-122: the build request.  Progress 10,
\* then fetch_all_repos starts its thread and returns at once.
BuildRequest ==
    /\ uiPc = "idle"
    /\ Running < MaxRunning
    /\ \E t \in Threads :
          /\ StartThread(t)
          /\ runThread' = t
    /\ progress' = 10
    /\ stage' = "Fetching"
    /\ runLog' = <<>>
    /\ deployed' = {}
    /\ uiPc' = "build_probe"
    /\ UNCHANGED <<fs, deployBuiltVisible, deployPrebuiltVisible, jsonEditor, branches>>
    /\ UNCHANGED <<igRef, web, call>>

\* BuildProbe with the branch of ui.py:125 lost: a found preview still goes on
\* to the publisher download.
BuildProbeFallsThrough ==
    /\ uiPc = "build_probe"
    /\ \E found \in BOOLEAN :
          runLog' = Append(runLog, IF found THEN "probe_true" ELSE "probe_false")
    /\ uiPc' = "build_jar"
    /\ stage' = "ProbingArtifact"
    /\ UNCHANGED <<syncVars, runThread, deployBuiltVisible, deployPrebuiltVisible,
                   deployed, jsonEditor, branches>>
    /\ UNCHANGED <<igRef, web, call>>

\* build_ig, line 125: logic.gh_pages_has_sitepreview(ig_source).
BuildProbe ==
    /\ uiPc = "build_probe"
    /\ \E found \in BOOLEAN :
          /\ runLog' = Append(runLog, IF found THEN "probe_true" ELSE "probe_false")
          /\ uiPc' = IF found THEN "build_gh_pages" ELSE "build_jar"
    /\ stage' = "ProbingArtifact"
    /\ UNCHANGED <<syncVars, runThread, deployBuiltVisible, deployPrebuiltVisible,
                   deployed, jsonEditor, branches>>
    /\ UNCHANGED <<igRef, web, call>>

\* build_ig, lines 126-130, with logic.download_gh_pages (logic.py:109-124):
\* fetch and checkout of gh-pages in an existing repository, a clone of that
\* branch otherwise; an exception is printed and the build goes on.
BuildDownloadGhPages ==
    /\ uiPc = "build_gh_pages"
    /\ \E ok \in BOOLEAN :
          /\ fs' = IF ok THEN [fs EXCEPT ![GhPagesFolder] = "repo"] ELSE fs
          /\ igRef' = IF ok THEN PreviewBranch ELSE igRef
          /\ runLog' = Append(runLog, IF ok THEN "gh_pages_ok" ELSE "gh_pages_failed")
    /\ deployPrebuiltVisible' = TRUE
    /\ progress' = 100
    /\ stage' = "PrebuiltDeployReady"
    /\ uiPc' = "idle"
    /\ UNCHANGED <<threads, runThread, deployBuiltVisible, deployed, jsonEditor,
                   branches, web, call>>

\* logic.download_publisher_jar(): called at ui.py:134, defined nowhere in
\* src/logic.py.  After spec 4.5 it fetches the publisher tool and returns.
DownloadPublisherJar == runLog' = Append(runLog, "jar")

\* The progress value build_ig sets before validating (ui.py:135).
ValidationProgress == 20

\* build_ig, lines 133-135.
BuildDownloadJar ==
    /\ uiPc = "build_jar"
    /\ DownloadPublisherJar
    /\ progress' = ValidationProgress
    /\ stage' = "Validating"
    /\ uiPc' = "build_validate"
    /\ UNCHANGED <<fs, threads, runThread, deployBuiltVisible, deployPrebuiltVisible,
                   deployed, jsonEditor, branches>>
    /\ UNCHANGED <<igRef, web, call>>

\* build_ig, lines 139-143, once validate_json has returned `valid`.
BuildValidateWith(valid) ==
    /\ uiPc = "build_validate"
    /\ IF valid
       THEN /\ runLog' = Append(runLog, "valid")
            /\ progress' = 30
            /\ stage' = "Building"
            /\ uiPc' = "build_cmd1"
       ELSE /\ runLog' = Append(runLog, "invalid")
            /\ progress' = progress
            /\ stage' = "ValidationFailed"
            /\ uiPc' = "idle"
    /\ UNCHANGED <<fs, threads, runThread, deployBuiltVisible, deployPrebuiltVisible,
                   deployed, jsonEditor, branches>>
    /\ UNCHANGED <<igRef, web, call>>

\* build_ig, lines 138-143.
BuildValidate == BuildValidateWith(ValidateJson(jsonEditor))

\* BuildRunCmd1 without the return of ui.py:171-172: cmd2 runs whatever the
\* exit status of cmd1.
BuildRunCmd1KeepsGoing ==
    /\ uiPc = "build_cmd1"
    /\ \E out \in CmdOutcomes :
          /\ runLog' = Append(runLog, "cmd1_" \o out)
          /\ uiPc' = IF out = "undecodable" THEN "idle" ELSE "build_cmd2"
    /\ UNCHANGED <<syncVars, stage, runThread, deployBuiltVisible,
                   deployPrebuiltVisible, deployed, jsonEditor, branches>>
    /\ UNCHANGED <<igRef, web, call>>

\* run_publisher, first pass of the loop (ui.py:166-172): cmd1.  A non-zero
\* exit returns False and build_ig logs "Build Failed" (ui.py:153-154); an
\* undecodable line raises out of the handler.
BuildRunCmd1 ==
    /\ uiPc = "build_cmd1"
    /\ \E out \in CmdOutcomes :
          /\ runLog' = Append(runLog, "cmd1_" \o out)
          /\ uiPc' = IF out = "zero" THEN "build_cmd2" ELSE "idle"
          /\ stage' = IF out = "nonzero" THEN "BuildFailed" ELSE stage
    /\ UNCHANGED <<syncVars, runThread, deployBuiltVisible, deployPrebuiltVisible,
                   deployed, jsonEditor, branches>>
    /\ UNCHANGED <<igRef, web, call>>

\* BuildRunCmd2 with the test of ui.py:149 lost: the "Deploy Built IG" button
\* is shown whatever run_publisher returned.
BuildRunCmd2AlwaysShows ==
    /\ uiPc = "build_cmd2"
    /\ \E out \in CmdOutcomes :
          /\ runLog' = Append(runLog, "cmd2_" \o out)
          /\ stage' = CASE out = "zero" -> "BuiltDeployReady"
                        [] out = "nonzero" -> "BuildFailed"
                        [] OTHER -> stage
          /\ progress' = IF out = "zero" THEN 100 ELSE progress
    /\ deployBuiltVisible' = TRUE
    /\ uiPc' = "idle"
    /\ UNCHANGED <<fs, threads, runThread, deployPrebuiltVisible, deployed,
                   jsonEditor, branches>>
    /\ UNCHANGED <<igRef, web, call>>

\* run_publisher, second pass (cmd2), and build_ig lines 149-154.
BuildRunCmd2 ==
    /\ uiPc = "build_cmd2"
    /\ \E out \in CmdOutcomes :
          /\ runLog' = Append(runLog, "cmd2_" \o out)
          /\ stage' = CASE out = "zero" -> "BuiltDeployReady"
                        [] out = "nonzero" -> "BuildFailed"
                        [] OTHER -> stage
          /\ deployBuiltVisible' = (deployBuiltVisible \/ out = "zero")
          /\ progress' = IF out = "zero" THEN 100 ELSE progress
    /\ uiPc' = "idle"
    /\ UNCHANGED <<fs, threads, runThread, deployPrebuiltVisible, deployed,
                   jsonEditor, branches>>
    /\ UNCHANGED <<igRef, web, call>>

BuildStep ==
    \/ BuildProbe
    \/ BuildDownloadGhPages
    \/ BuildDownloadJar
    \/ BuildValidate
    \/ BuildRunCmd1
    \/ BuildRunCmd2

\* ------------------------------------- the functions of logic.py on their own

\* What a call of one of these functions leaves alone: all but web and call.
logicFrame == <<fs, threads, progress, uiPc, stage, runLog, runThread,
                deployBuiltVisible, deployPrebuiltVisible, deployed, jsonEditor,
                branches, igRef>>

SeqsUpTo(S, n) == UNION {[1..k -> S] : k \in 0..n}

\* Repository URLs: texts over a slash and two other characters.
UrlChars == {"/", "o", "r"}
Urls == SeqsUpTo(UrlChars, MaxUrlLen)

\* Branch and tag names of a remote; a branch and a tag may share a name, and
\* a branch name may contain refs/heads/.
HeadNames == {<<"main">>, <<"dev">>, <<"x/", HeadsPrefix, "y">>}
TagNames == {<<"main">>, <<"v1">>}
HeadListings == SeqsUpTo(HeadNames, MaxRefs)
TagListings == SeqsUpTo([name : TagNames, annotated : BOOLEAN], MaxRefs)

\* publication-request.json of a repository: absent, or its text.
ManifestFiles == {"absent", <<>>, <<" ">>, EmptyObject, ValidManifest, TruncatedManifest}

\* logic.deploy_built(current_web_content)
CallDeployBuilt ==
    /\ call = NoCall
    /\ \E outcome \in DeployBuiltOutcomes :
          LET r == DeployBuiltRun(outcome)
          IN /\ call' = [fn |-> "deploy_built", arg |-> outcome,
                         ret |-> r.ret, ops |-> r.ops]
             /\ web' = WebAfter(web, r.ops)
    /\ UNCHANGED logicFrame

\* logic.deploy_prebuilt(current_web_content, work_folder), with or without
\* <work folder>/New_IG_Source/sitepreview.
CallDeployPrebuilt ==
    /\ call = NoCall
    /\ \E sitepreview \in BOOLEAN :
          LET r == DeployPrebuiltRun(sitepreview)
          IN /\ call' = [fn |-> "deploy_prebuilt", arg |-> sitepreview,
                         ret |-> r.ret, ops |-> r.ops]
             /\ web' = WebAfter(web, r.ops)
    /\ UNCHANGED logicFrame

\* logic.gh_pages_has_sitepreview(repo_url)
CallGhPagesHasSitepreview ==
    /\ call = NoCall
    /\ \E repo_url \in Urls, response \in ProbeResponses :
          call' = [fn |-> "gh_pages_has_sitepreview",
                   arg |-> [repo_url |-> repo_url, response |-> response],
                   ret |-> GhPagesHasSitepreview(repo_url, response), ops |-> <<>>]
    /\ UNCHANGED web
    /\ UNCHANGED logicFrame

\* logic.load_publication_request(repo_path), and validate_json of cli.py on
\* the same repository.
CallLoadPublicationRequest ==
    /\ call = NoCall
    /\ \E file \in ManifestFiles, readable \in BOOLEAN :
          call' = [fn |-> "load_publication_request",
                   arg |-> [file |-> file, readable |-> readable],
                   ret |-> [payload |-> LoadPublicationRequest(file, readable),
                            valid |-> CliValidateJson(file, readable)],
                   ops |-> <<>>]
    /\ UNCHANGED web
    /\ UNCHANGED logicFrame

\* logic.get_git_branches(repo_url) when both ls_remote calls answer.
CallGetGitBranches ==
    /\ call = NoCall
    /\ \E heads \in HeadListings, tags \in TagListings :
          call' = [fn |-> "get_git_branches",
                   arg |-> [heads |-> heads, tags |-> tags],
                   ret |-> ParseRefs(LsRemoteHeads(heads), LsRemoteTags(tags)),
                   ops |-> <<>>]
    /\ UNCHANGED web
    /\ UNCHANGED logicFrame

\* The caller has the result; the next call can be made.
CallReturn ==
    /\ call # NoCall
    /\ call' = NoCall
    /\ UNCHANGED web
    /\ UNCHANGED logicFrame

NextLogic ==
    \/ CallDeployBuilt
    \/ CallDeployPrebuilt
    \/ CallGhPagesHasSitepreview
    \/ CallLoadPublicationRequest
    \/ CallGetGitBranches
    \/ CallReturn

SpecLogic == Init /\ [][NextLogic]_vars

NextSync == FetchAllClick(MaxThreads) \/ SyncStep

SpecSync == Init /\ [][NextSync]_vars

\* SpecSync with the scheduling the code provides: a started thread keeps
\* running, and a fetch ends because wait(timeout=timeout) (logic.py:35)
\* bounds it.  Nothing bounds git.Repo.clone_from (logic.py:47), so the end
\* of a clone is left to the remote.
SpecSyncFair ==
    /\ SpecSync
    /\ \A t \in Threads :
          /\ WF_vars(SyncExists(t))
          /\ WF_vars(SyncMakedirs(t))
          /\ WF_vars(threads[t].pc = "fetch" /\ SyncReturn(t))
          /\ WF_vars(SyncLog(t))

Next ==
    \/ FetchAllClick(MaxRunning)
    \/ SyncStep
    \/ FetchIgRepoBegin
    \/ FetchIgRepoReturn
    \/ FetchIgRepoFetched
    \/ BranchSelected
    \/ BuildRequest
    \/ BuildStep
    \/ DeployBuilt
    \/ DeployPrebuilt

Spec == Init /\ [][Next]_vars

\* Build requests with what they depend on: the thread each of them starts,
\* and the fetch of the IG source and the branch switch that fill json_editor.
NextBuild ==
    \/ BuildRequest
    \/ BuildStep
    \/ SyncStep
    \/ FetchIgRepoBegin
    \/ FetchIgRepoReturn
    \/ FetchIgRepoFetched
    \/ BranchSelected

\* A step of build_ig, whatever validate_json returns in it.
BuildMoves ==
    \/ BuildProbe
    \/ BuildDownloadGhPages
    \/ BuildDownloadJar
    \/ \E valid \in BOOLEAN : BuildValidateWith(valid)
    \/ BuildRunCmd1
    \/ BuildRunCmd2

\* Every call build_ig makes returns or raises in the end (the probe, the
\* branch download, the publisher download, validate_json, the publisher
\* commands), so a handler that has started goes on to its next step.
SpecBuildFair ==
    /\ Init
    /\ [][NextBuild]_vars
    /\ WF_vars(BuildMoves)

\* ------------------------------------------------------------------ claims

BuildPcs == {"build_probe", "build_gh_pages", "build_jar", "build_validate",
             "build_cmd1", "build_cmd2"}

\* A BuildRun is between its build request and its end.
InRun == uiPc \in BuildPcs

\* The thread the latest BuildRun started has ended.
RunSyncComplete == runThread # 0 => Free(runThread)

Logged(e) == e \in Range(runLog)

PublisherEvents == {"cmd1_zero", "cmd1_nonzero", "cmd1_undecodable",
                    "cmd2_zero", "cmd2_nonzero", "cmd2_undecodable"}

\* C1: at most one of deployBuilt and deployPrebuilt is available, and at most
\* one of them is invoked, for the latest BuildRun.
C1_DeployMutuallyExclusive ==
    /\ ~(deployBuiltVisible /\ deployPrebuiltVisible)
    /\ Cardinality(deployed) <= 1

\* C2: once the probe of a BuildRun has executed, and while any later stage
\* of the run executes, the sync thread of that run has ended.
C2_ProbeAfterSync ==
    (InRun /\ stage # "Fetching") => RunSyncComplete

\* C3: from the build request to the end of a BuildRun every step leaves the
\* progress value within 0..100 and does not lower it.
C3_ProgressMonotonic ==
    [][InRun => (progress' >= progress /\ progress' \in 0..100)]_vars

\* C4: a run whose probe returned true does no publisher download, no
\* validation and no publisher command, stays out of Validating and Building,
\* and its next step reaches PrebuiltDeployReady; a run reaches
\* PrebuiltDeployReady only after its probe returned true.
C4_PrebuiltInvariant ==
    /\ stage = "PrebuiltDeployReady" => (runLog # <<>> /\ runLog[1] = "probe_true")
    /\ Logged("probe_true") =>
          /\ stage \in {"ProbingArtifact", "PrebuiltDeployReady"}
          /\ ~Logged("jar") /\ ~Logged("valid") /\ ~Logged("invalid")
          /\ Range(runLog) \cap PublisherEvents = {}

C4_PrebuiltShortCircuit ==
    /\ []C4_PrebuiltInvariant
    /\ [][(Logged("probe_true") /\ InRun /\ uiPc' # uiPc)
             => stage' = "PrebuiltDeployReady"]_vars

C4_Witness ==
    stage = "PrebuiltDeployReady" /\ Logged("probe_true") /\ progress = 100

\* C5 as stated: a deploy button becomes visible only in the step in which a
\* BuildRun reaches the matching terminal-success stage.
C5_DeployOnlyAfterRunSuccess ==
    [][/\ (~deployBuiltVisible /\ deployBuiltVisible')
             => (stage # stage' /\ stage' = "BuiltDeployReady")
       /\ (~deployPrebuiltVisible /\ deployPrebuiltVisible')
             => (stage # stage' /\ stage' = "PrebuiltDeployReady")]_vars

\* C5 amended: "Deploy Built IG" becomes visible only when a BuildRun reaches
\* BuiltDeployReady; "Deploy Pre-Built IG" becomes visible only when a
\* BuildRun reaches PrebuiltDeployReady or in the success branch of
\* fetch_ig_repo; neither is visible at start.
C5_DeployEnabledByRunOrFetch ==
    /\ (~deployBuiltVisible /\ ~deployPrebuiltVisible)
    /\ [][/\ (~deployBuiltVisible /\ deployBuiltVisible')
                => (stage # stage' /\ stage' = "BuiltDeployReady")
          /\ (~deployPrebuiltVisible /\ deployPrebuiltVisible')
                => \/ (stage # stage' /\ stage' = "PrebuiltDeployReady")
                   \/ (uiPc = "ig_fetched" /\ uiPc' = "idle")]_vars

C5_Witness ==
    /\ deployBuiltVisible /\ stage = "BuiltDeployReady"
    /\ deployPrebuiltVisible

\* C6: Building is entered only after a successful validation; a run whose
\* validation failed is in ValidationFailed and ran no publisher command; the
\* step that ends a run in ValidationFailed leaves the progress value no
\* higher than that of the validation stage and does not show the "Deploy
\* Built IG" button.
C6_ValidationGate ==
    /\ []((stage = "Building" \/ Range(runLog) \cap PublisherEvents # {})
             => Logged("valid"))
    /\ [](Logged("invalid") =>
             /\ stage = "ValidationFailed"
             /\ Range(runLog) \cap PublisherEvents = {})
    /\ [][(InRun /\ stage' = "ValidationFailed")
             => /\ deployBuiltVisible' = deployBuiltVisible
                /\ progress' <= ValidationProgress]_vars

C8_OneOutcomePerRepository ==
    \A t \in Threads : threads[t].pc \in {"done", "dead"} =>
        /\ threads[t].outcomes = Range(SyncNames)
        /\ threads[t].completed = TotalRepos

\* The clone or fetch operations in progress against local path p.
InProgress(p) ==
    {t \in Threads : threads[t].pc \in {"fetch", "clone"} /\ SyncPath(t) = p}
    \cup (IF uiPc \in {"ig_fetch", "ig_clone"} /\ p = IgSourceFolder
          THEN {0} ELSE {})

\* C9: at most one clone or fetch is in progress against any local path.
C9_OneOperationPerPath ==
    \A p \in Paths : Cardinality(InProgress(p)) <= 1

\* C10: fetch_or_update_repo returns True exactly when the clone or the
\* fetch it started succeeded.
C10_SuccessIffSucceeded ==
    \A t \in Threads : threads[t].pc = "returned" =>
        (threads[t].ret <=> threads[t].ok)

\* C11: a fetch_or_update_repo call whose fetch exceeded the timeout returns
\* False with the fetch subprocess killed, and every call, fetch or clone,
\* eventually returns.
C11_TimeoutTerminates ==
    /\ [](\A t \in Threads :
            (threads[t].pc = "returned" /\ threads[t].out = "timeout")
               => (~threads[t].ret /\ threads[t].proc = "killed"))
    /\ \A t \in Threads :
          (threads[t].pc \in {"fetch", "clone"}) ~> (threads[t].pc = "returned")

\* C12: a deploy_prebuilt call without the sitepreview folder returns False
\* and does no copy, stage, commit, branch creation or push: the web-content
\* working tree, its local refs and the remote stay as they were.
C12_NoArtifactNoEffect ==
    [][(call.fn = "none" /\ call'.fn = "deploy_prebuilt" /\ ~call'.arg)
          => /\ call'.ret = "False"
             /\ call'.ops = <<>>
             /\ web' = web]_vars

C12_Witness ==
    /\ call.fn = "deploy_prebuilt" /\ ~call.arg /\ call.ret = "False"
    /\ web.head = "built" /\ "main" \in web.remote

\* C13: a deploy_prebuilt call with the sitepreview folder copies, stages,
\* commits, creates the branch new and pushes it, in this order, and returns
\* True; it pushes new only and leaves the active branch alone; a
\* deploy_built call pushes the primary branch only.
C13_PrebuiltDeploySequence ==
    [][/\ (call.fn = "none" /\ call'.fn = "deploy_prebuilt" /\ call'.arg)
             => /\ call'.ops = <<"copy", "stage", "commit_prebuilt",
                                 "create_new", "push_new">>
                /\ call'.ret = "True"
                /\ web'.remote = web.remote \cup {"new"}
                /\ web'.active = web.active
       /\ (call.fn = "none" /\ call'.fn = "deploy_built")
             => /\ web'.remote \subseteq web.remote \cup {"main"}
                /\ "push_new" \notin Range(call'.ops)]_vars

\* C14: gh_pages_has_sitepreview never raises and returns a boolean, False
\* for every response outside 200..299 and whenever the request raised.
C14_ProbeNeverRaises ==
    call.fn = "gh_pages_has_sitepreview" =>
        /\ ~call.ret.raised
        /\ call.ret.value \in BOOLEAN
        /\ (call.arg.response.raised \/ call.arg.response.status \notin 200..299)
              => ~call.ret.value

C14_Witness ==
    /\ call.fn = "gh_pages_has_sitepreview"
    /\ Len(SplitSlash(call.arg.repo_url)) < 2
    /\ ~call.arg.response.raised /\ call.arg.response.status = 200
    /\ ~call.ret.raised /\ ~call.ret.value

\* C15: load_publication_request returns the empty-object payload for an
\* absent or unreadable manifest file, and that payload passes validate_json;
\* for a present readable file it returns the text of the file.
C15_LoadNeverFails ==
    call.fn = "load_publication_request" =>
        /\ (call.arg.file = "absent" \/ ~call.arg.readable)
              => (call.ret.payload = EmptyObject /\ call.ret.valid)
        /\ (call.arg.file # "absent" /\ call.arg.readable)
              => call.ret.payload = call.arg.file

C15_Witness ==
    /\ call.fn = "load_publication_request"
    /\ call.arg.file = TruncatedManifest /\ ~call.arg.readable
    /\ call.ret.payload = EmptyObject /\ call.ret.valid

\* C16: fetch_or_update_repo starts a fetch exactly when the path holds a
\* repository and a clone otherwise; a call whose clone or fetch succeeded
\* returns True and leaves a repository at the path, so a clone followed by
\* a fetch of the same path both succeed.
C16_CloneThenFetch ==
    /\ [][\A t \in Threads :
            /\ (threads[t].pc = "loop" /\ threads'[t].pc = "fetch")
                  => fs[SyncPath(t)] = "repo"
            /\ (threads[t].pc = "loop" /\ threads'[t].pc \in {"makedirs", "clone"})
                  => fs[SyncPath(t)] # "repo"]_vars
    /\ [](\A t \in Threads :
            (threads[t].pc = "returned" /\ threads[t].ok)
               => (threads[t].ret /\ fs[SyncPath(t)] = "repo"))

C16_Witness ==
    \E t \in Threads :
        /\ threads[t].pc = "returned" /\ threads[t].out = "exit_zero"
        /\ threads[t].ret /\ fs[SyncPath(t)] = "repo"

\* C17: get_git_branches returns the names of the remote's branches followed
\* by the names of its tags, each group in listing order, nothing removed,
\* merged or reordered, and changes no local state.
C17_BranchesThenTags ==
    /\ [](call.fn = "get_git_branches" =>
            call.ret = [i \in 1..Len(call.arg.heads) |-> Join(call.arg.heads[i])]
                       \o [i \in 1..Len(call.arg.tags) |-> Join(call.arg.tags[i].name)])
    /\ [][call'.fn = "get_git_branches" => UNCHANGED <<fs, igRef, web>>]_vars

\* The payloads load_publication_request can give for a ref of the remote.
ManifestPayloads ==
    {LoadPublicationRequest(ManifestFile(r), readable) :
        r \in Range(RemoteHeads \o RemoteTags), readable \in BOOLEAN}

\* C18: the text validation checks is always the empty-object payload or the
\* manifest loaded at a branch switch, and a run validated before any
\* successful branch switch passes validation.
C18_PayloadWellDefined ==
    /\ jsonEditor \in ManifestPayloads
    /\ igRef = "none" => ~Logged("invalid")

\* C19: download_gh_pages leaves New_IG_Source and the ref checked out in it
\* as they were, and that ref changes only by a checkout of
\* on_branch_selected or a clone of fetch_ig_repo, never by a step of a build.
C19_PreviewFetchKeepsSourceRef ==
    [][/\ uiPc = "build_gh_pages"
             => (fs'[IgSourceFolder] = fs[IgSourceFolder] /\ igRef' = igRef)
       /\ igRef' # igRef => uiPc \in {"idle", "ig_clone", "ig_fetched"}]_vars

\* What a BuildRun logs when one of its operations failed.
RunFailures == {"gh_pages_failed", "invalid", "cmd1_nonzero", "cmd2_nonzero",
                "cmd1_undecodable", "cmd2_undecodable"}

\* C20: a BuildRun in which an operation failed does not end in a success
\* stage.
C20_NoFailureSwallowed ==
    (Range(runLog) \cap RunFailures # {})
       => stage \notin {"PrebuiltDeployReady", "BuiltDeployReady"}

\* The successors of each stage of the BuildOrchestrator state machine; a
\* build request leaves Idle, or a terminal stage of the run before, for
\* Fetching.
TerminalStages == {"PrebuiltDeployReady", "ValidationFailed", "BuildFailed",
                   "BuiltDeployReady"}

StageSuccessors(st) ==
    CASE st = "Fetching"        -> {"ProbingArtifact"}
      [] st = "ProbingArtifact" -> {"PrebuiltDeployReady", "Validating"}
      [] st = "Validating"      -> {"ValidationFailed", "Building"}
      [] st = "Building"        -> {"BuildFailed", "BuiltDeployReady"}
      [] OTHER                  -> {"Fetching"}

\* C21: the stage changes along the transitions of the state machine only,
\* every BuildRun comes to an end, and a run that has ended is in one of the
\* four terminal stages.
C21_RunReachesTerminalStage ==
    /\ [][stage' # stage => stage' \in StageSuccessors(stage)]_vars
    /\ [](~InRun => stage \in TerminalStages \cup {"Idle"})
    /\ InRun ~> (~InRun /\ stage \in TerminalStages)

====
